---- MODULE Spec2Model ----
(***************************************************************************)
(* Water quality evaluation of the rainwater dashboard                     *)
(* (app/lib/water-quality: SENSOR_THRESHOLDS, getSensorStatus,             *)
(* calculateWaterQuality, getSafeRangePercentage).                         *)
(*                                                                         *)
(* Numbers.  Sensor readings and thresholds are JavaScript numbers.  The   *)
(* model keeps them as integers counted in TENTHS (6.5 is 65, 500 is       *)
(* 5000), the finest grain of the threshold table and of the readings the  *)
(* dashboard ships.  Every bound the code compares with (6.5, 8.5, 6.0,    *)
(* 9.0, 15, 25, 10, 30, 5 * 0.8 = 4, 500 * 0.8 = 400) is exactly           *)
(* representable as a double, so the comparisons are exact.  Percentages   *)
(* are counted in HUNDREDTHS of a percent (100 % is 10000).                *)
(*                                                                         *)
(* The program is single threaded: the state is the module-level threshold *)
(* table, the frame of the call in progress (or of the last call made),    *)
(* what it returned and what the dashboard rendered from it.               *)
(*                                                                         *)
(* The history page (app/routes/history.jsx) keeps its own state: the two  *)
(* filters, the search text and the current page of the filtered logs.     *)
(* Strings that the page searches are sequences of characters.             *)
(***************************************************************************)
EXTENDS Integers, Sequences, FiniteSets

\* ------------------------------------------------------------------ bounds

\* readings range over -MaxNeg .. MaxValue tenths (-10.0 .. 610.0)
MaxValue == 6100
MaxNeg == 100
\* the largest number of entries of an enumerated readings object
MaxEntries == 3
\* repeated calls: the largest number of entries of a readings object, and
\* the largest number of calls that went before a call
MaxCallEntries == 2
MaxCalls == 3

Values == (0 - MaxNeg) .. MaxValue

\* ------------------------------------------------------------ status types

SAFE == "safe"
WARNING == "warning"
UNSAFE == "unsafe"

WATER_STATUS == {SAFE, WARNING, UNSAFE}

\* ----------------------------------------------------------- the threshold table

\* the own keys of the SENSOR_THRESHOLDS object literal
SensorKinds == {"ph", "turbidity", "tds", "temperature"}

\* the module-level object SENSOR_THRESHOLDS: an exported const binding to an
\* object that is not frozen, read by every operation
VARIABLE SENSOR_THRESHOLDS

\* the object literal it is bound to at load: min and max of each own entry,
\* in tenths
SENSOR_THRESHOLDS_LITERAL ==
  [ ph          |-> [min |-> 65,  max |-> 85],
    turbidity   |-> [min |-> 0,   max |-> 50],
    tds         |-> [min |-> 0,   max |-> 5000],
    temperature |-> [min |-> 150, max |-> 250] ]

\* SENSOR_THRESHOLDS is a plain object literal: a property read that misses
\* its own keys goes on to Object.prototype, whose members (constructor,
\* toString, ...) are functions, truthy values without min or max.
ObjectPrototypeKeys == {"constructor", "toString"}

\* names that are neither own nor inherited keys: the read gives undefined
OtherKeys == {"chlorine", "lastUpdated"}

Keys == SensorKinds \cup ObjectPrototypeKeys \cup OtherKeys

\* mutant: the lookup is not tested, every key counts as a sensor
Truthy_Always(sensorType) == TRUE

\* truthiness of SENSOR_THRESHOLDS[sensorType]
Truthy(sensorType) == sensorType \in SensorKinds \cup ObjectPrototypeKeys

\* mutant: the 0.8 factor is forgotten
MaxTimes08_NoFraction(sensorType) == SENSOR_THRESHOLDS[sensorType].max

\* threshold.max * 0.8, in tenths (5 * 0.8 and 500 * 0.8 are exactly 4 and 400)
MaxTimes08(sensorType) == (SENSOR_THRESHOLDS[sensorType].max * 8) \div 10

\* ------------------------------------------------------------ getSensorStatus

\* mutant: the temperature branch keeps the 0.5 slack of the ph branch
getSensorStatus_PhSlackForTemperature(sensorType, value) ==
  IF ~Truthy(sensorType) THEN WARNING
  ELSE IF sensorType = "ph" \/ sensorType = "temperature" THEN
    LET threshold == SENSOR_THRESHOLDS[sensorType] IN
    IF value >= threshold.min /\ value <= threshold.max THEN SAFE
    ELSE IF value >= threshold.min - 5 /\ value <= threshold.max + 5 THEN WARNING
    ELSE UNSAFE
  ELSE IF sensorType = "turbidity" \/ sensorType = "tds" THEN
    LET threshold == SENSOR_THRESHOLDS[sensorType] IN
    IF value <= MaxTimes08(sensorType) THEN SAFE
    ELSE IF value <= threshold.max THEN WARNING
    ELSE UNSAFE
  ELSE SAFE

\* mutant: the safe range of ph and temperature excludes its two ends
getSensorStatus_ExclusiveEnds(sensorType, value) ==
  IF ~Truthy(sensorType) THEN WARNING
  ELSE IF sensorType = "ph" \/ sensorType = "temperature" THEN
    LET threshold == SENSOR_THRESHOLDS[sensorType]
        slack == IF sensorType = "ph" THEN 5 ELSE 50
    IN
    IF value > threshold.min /\ value < threshold.max THEN SAFE
    ELSE IF value >= threshold.min - slack /\ value <= threshold.max + slack THEN WARNING
    ELSE UNSAFE
  ELSE IF sensorType = "turbidity" \/ sensorType = "tds" THEN
    LET threshold == SENSOR_THRESHOLDS[sensorType] IN
    IF value <= MaxTimes08(sensorType) THEN SAFE
    ELSE IF value <= threshold.max THEN WARNING
    ELSE UNSAFE
  ELSE SAFE

\* mutant: a negative reading is rejected (a RangeError is thrown)
getSensorStatus_RejectsNegative(sensorType, value) ==
  IF value < 0 THEN "RangeError"
  ELSE IF ~Truthy(sensorType) THEN WARNING
  ELSE IF sensorType = "ph" \/ sensorType = "temperature" THEN
    LET threshold == SENSOR_THRESHOLDS[sensorType]
        slack == IF sensorType = "ph" THEN 5 ELSE 50
    IN
    IF value >= threshold.min /\ value <= threshold.max THEN SAFE
    ELSE IF value >= threshold.min - slack /\ value <= threshold.max + slack THEN WARNING
    ELSE UNSAFE
  ELSE IF sensorType = "turbidity" \/ sensorType = "tds" THEN
    LET threshold == SENSOR_THRESHOLDS[sensorType] IN
    IF value <= MaxTimes08(sensorType) THEN SAFE
    ELSE IF value <= threshold.max THEN WARNING
    ELSE UNSAFE
  ELSE SAFE

\* mutant: an unknown kind gets a status of its own, 'unknown'
getSensorStatus_UnknownStatus(sensorType, value) ==
  IF ~Truthy(sensorType) THEN "unknown"
  ELSE IF sensorType = "ph" \/ sensorType = "temperature" THEN
    LET threshold == SENSOR_THRESHOLDS[sensorType]
        slack == IF sensorType = "ph" THEN 5 ELSE 50
    IN
    IF value >= threshold.min /\ value <= threshold.max THEN SAFE
    ELSE IF value >= threshold.min - slack /\ value <= threshold.max + slack THEN WARNING
    ELSE UNSAFE
  ELSE IF sensorType = "turbidity" \/ sensorType = "tds" THEN
    LET threshold == SENSOR_THRESHOLDS[sensorType] IN
    IF value <= MaxTimes08(sensorType) THEN SAFE
    ELSE IF value <= threshold.max THEN WARNING
    ELSE UNSAFE
  ELSE SAFE

\* mutant: the two return values after the Safe test are exchanged
getSensorStatus_SwappedReturns(sensorType, value) ==
  IF ~Truthy(sensorType) THEN WARNING
  ELSE IF sensorType = "ph" \/ sensorType = "temperature" THEN
    LET threshold == SENSOR_THRESHOLDS[sensorType]
        slack == IF sensorType = "ph" THEN 5 ELSE 50
    IN
    IF value >= threshold.min /\ value <= threshold.max THEN SAFE
    ELSE IF value >= threshold.min - slack /\ value <= threshold.max + slack THEN UNSAFE
    ELSE WARNING
  ELSE IF sensorType = "turbidity" \/ sensorType = "tds" THEN
    LET threshold == SENSOR_THRESHOLDS[sensorType] IN
    IF value <= MaxTimes08(sensorType) THEN SAFE
    ELSE IF value <= threshold.max THEN UNSAFE
    ELSE WARNING
  ELSE SAFE

\* mutant: the upper edge of the widened band is excluded
getSensorStatus_StrictUpperBand(sensorType, value) ==
  IF ~Truthy(sensorType) THEN WARNING
  ELSE IF sensorType = "ph" \/ sensorType = "temperature" THEN
    LET threshold == SENSOR_THRESHOLDS[sensorType]
        slack == IF sensorType = "ph" THEN 5 ELSE 50
    IN
    IF value >= threshold.min /\ value <= threshold.max THEN SAFE
    ELSE IF value >= threshold.min - slack /\ value < threshold.max + slack THEN WARNING
    ELSE UNSAFE
  ELSE IF sensorType = "turbidity" \/ sensorType = "tds" THEN
    LET threshold == SENSOR_THRESHOLDS[sensorType] IN
    IF value <= MaxTimes08(sensorType) THEN SAFE
    ELSE IF value <= threshold.max THEN WARNING
    ELSE UNSAFE
  ELSE SAFE

getSensorStatus(sensorType, value) ==
  IF ~Truthy(sensorType) THEN WARNING
  ELSE IF sensorType = "ph" THEN
    LET threshold == SENSOR_THRESHOLDS[sensorType] IN
    IF value >= threshold.min /\ value <= threshold.max THEN SAFE
    ELSE IF value >= threshold.min - 5 /\ value <= threshold.max + 5 THEN WARNING
    ELSE UNSAFE
  ELSE IF sensorType = "turbidity" \/ sensorType = "tds" THEN
    LET threshold == SENSOR_THRESHOLDS[sensorType] IN
    IF value <= MaxTimes08(sensorType) THEN SAFE
    ELSE IF value <= threshold.max THEN WARNING
    ELSE UNSAFE
  ELSE IF sensorType = "temperature" THEN
    LET threshold == SENSOR_THRESHOLDS[sensorType] IN
    IF value >= threshold.min /\ value <= threshold.max THEN SAFE
    ELSE IF value >= threshold.min - 50 /\ value <= threshold.max + 50 THEN WARNING
    ELSE UNSAFE
  ELSE SAFE

\* ------------------------------------------------------ calculateWaterQuality

\* a readings object is the sequence of its entries, in the order
\* Object.entries enumerates them (insertion order); its keys are distinct
EmptyMap == [k \in {} |-> SAFE]

\* mutant: the status of the entry is assigned without the comparison
Upgrade_LastWins(overallStatus, status) == status

\* mutant: a Warning replaces the overall status whatever it was
Upgrade_WarningOverwrites(overallStatus, status) ==
  IF status = UNSAFE THEN UNSAFE
  ELSE IF status = WARNING THEN WARNING
  ELSE overallStatus

\* "Upgrade overall status if worse"
Upgrade(overallStatus, status) ==
  IF status = UNSAFE THEN UNSAFE
  ELSE IF status = WARNING /\ overallStatus = SAFE THEN WARNING
  ELSE overallStatus

\* one iteration of the for loop, on the locals acc = [statuses, overallStatus]
LoopBody(acc, entry) ==
  IF Truthy(entry.sensor) THEN
    LET status == getSensorStatus(entry.sensor, entry.value) IN
    [ statuses |-> [k \in DOMAIN acc.statuses \cup {entry.sensor} |->
                      IF k = entry.sensor THEN status ELSE acc.statuses[k]],
      overallStatus |-> Upgrade(acc.overallStatus, status) ]
  ELSE acc

\* mutant: potable unless Unsafe
WaterQualityResult_PotableUnlessUnsafe(overallStatus, statuses) ==
  [ overall |-> overallStatus,
    sensors |-> statuses,
    isPotable |-> (overallStatus # UNSAFE) ]

\* the object the function returns
WaterQualityResult(overallStatus, statuses) ==
  [ overall |-> overallStatus,
    sensors |-> statuses,
    isPotable |-> (overallStatus = SAFE) ]

RECURSIVE LoopOver(_, _)
\* the locals after the loop has run over the first n entries of sensorData
LoopOver(sensorData, n) ==
  IF n = 0 THEN [statuses |-> EmptyMap, overallStatus |-> SAFE]
  ELSE LoopBody(LoopOver(sensorData, n - 1), sensorData[n])

\* the whole call
calculateWaterQuality(sensorData) ==
  LET acc == LoopOver(sensorData, Len(sensorData)) IN
  WaterQualityResult(acc.overallStatus, acc.statuses)

\* ----------------------------------------------------- getSafeRangePercentage

\* a returned number, in hundredths of a percent, or NaN
Num(n) == [isNaN |-> FALSE, num |-> n]
NaN == [isNaN |-> TRUE, num |-> 0]

\* mutant: Math.min(100, x), the floor at 0 is missing
Clamp_NoFloor(x) == IF x > 10000 THEN 10000 ELSE x

\* mutant: Math.max(0, x), the cap at 100 is missing
Clamp_NoCap(x) == IF x < 0 THEN 0 ELSE x

\* Math.max(0, Math.min(100, x))
Clamp(x) == IF x > 10000 THEN 10000 ELSE IF x < 0 THEN 0 ELSE x

\* mutant: Math.abs is left out
Abs_Identity(x) == x

Abs(x) == IF x < 0 THEN 0 - x ELSE x

\* mutant: the percentage is taken of the safe zone, threshold.max * 0.8
getSafeRangePercentage_OfSafeZone(sensorType, value) ==
  IF ~Truthy(sensorType) THEN Num(5000)
  ELSE IF sensorType = "ph" THEN
    LET threshold == SENSOR_THRESHOLDS[sensorType]
        range == threshold.max - threshold.min
        midpoint == threshold.min + range \div 2
        deviation == Abs(value - midpoint)
    IN  Num(Clamp(10000 - (deviation * 10000) \div (range \div 2)))
  ELSE IF sensorType \in SensorKinds THEN
    Num(Clamp((value * 10000) \div MaxTimes08(sensorType)))
  ELSE NaN

\* mutant: the deviation is divided by the range, not by half of it
getSafeRangePercentage_FullRange(sensorType, value) ==
  IF ~Truthy(sensorType) THEN Num(5000)
  ELSE IF sensorType = "ph" THEN
    LET threshold == SENSOR_THRESHOLDS[sensorType]
        range == threshold.max - threshold.min
        midpoint == threshold.min + range \div 2
        deviation == Abs(value - midpoint)
    IN  Num(Clamp(10000 - (deviation * 10000) \div range))
  ELSE IF sensorType \in SensorKinds THEN
    Num(Clamp((value * 10000) \div SENSOR_THRESHOLDS[sensorType].max))
  ELSE NaN

getSafeRangePercentage(sensorType, value) ==
  IF ~Truthy(sensorType) THEN Num(5000)
  ELSE IF sensorType = "ph" THEN
    LET threshold == SENSOR_THRESHOLDS[sensorType]
        range == threshold.max - threshold.min
        midpoint == threshold.min + range \div 2
        deviation == Abs(value - midpoint)
    IN  Num(Clamp(10000 - (deviation * 10000) \div (range \div 2)))
  ELSE IF sensorType \in SensorKinds THEN
    Num(Clamp((value * 10000) \div SENSOR_THRESHOLDS[sensorType].max))
  \* an inherited member has no max: value / undefined is NaN, which
  \* Math.min and Math.max hand on
  ELSE NaN

\* ------------------------------------------------------------ status display

\* label and text colour of each STATUS_CONFIG entry
STATUS_CONFIG ==
  [ safe    |-> [label |-> "Safe", color |-> "text-green-600 dark:text-green-400"],
    warning |-> [label |-> "Warning", color |-> "text-amber-600 dark:text-amber-400"],
    unsafe  |-> [label |-> "Unsafe", color |-> "text-red-600 dark:text-red-400"] ]

\* WaterQualityStatus: colour classes of the status icon and headline
ICON_COLORS ==
  [ safe    |-> "text-green-600 dark:text-green-400",
    warning |-> "text-amber-600 dark:text-amber-400",
    unsafe  |-> "text-red-600 dark:text-red-400" ]

\* mutant: the headline tests "not unsafe" instead of "safe"
Headline_PotableUnlessUnsafe(status) ==
  IF status # UNSAFE THEN "Water is Potable"
  ELSE IF status = WARNING THEN "Caution Advised"
  ELSE "Not Safe to Drink"

\* WaterQualityStatus: the headline
Headline(status) ==
  IF status = SAFE THEN "Water is Potable"
  ELSE IF status = WARNING THEN "Caution Advised"
  ELSE "Not Safe to Drink"

\* what WaterQualityStatus shows for a status
WaterQualityStatus(status) ==
  [ headline |-> Headline(status),
    label |-> STATUS_CONFIG[status].label,
    color |-> ICON_COLORS[status] ]

\* ----------------------------------------------------------------- callers

\* the readings the dashboard ships (mock data), in tenths; lastUpdated is an
\* ISO date string, which no operation reads: it is kept as 0
currentSensorData ==
  << [sensor |-> "ph", value |-> 72],
     [sensor |-> "turbidity", value |-> 25],
     [sensor |-> "tds", value |-> 2450],
     [sensor |-> "temperature", value |-> 225],
     [sensor |-> "lastUpdated", value |-> 0] >>

\* the values the enumerated readings objects hold for each key
Samples(k) ==
  CASE k = "ph" -> {72, 60, 59}
    [] k = "turbidity" -> {25, 45, 60}
    [] k = "tds" -> {2450, 4500, 6000}
    [] k = "temperature" -> {225, 290, 310}
    [] OTHER -> {0}

Entries == UNION {{[sensor |-> k, value |-> v] : v \in Samples(k)} : k \in Keys}

\* the readings objects of n entries
ReadingsOf(n) ==
  {s \in [1..n -> Entries] : \A i, j \in 1..n : i # j => s[i].sensor # s[j].sensor}

Readings == UNION {ReadingsOf(n) : n \in 0..MaxEntries} \cup {currentSensorData}

\* the arguments of repeated calls: every key with its sample values, and
\* the readings objects over three of the keys
CallPairs == {<<k, v>> : k \in Keys, v \in {0, 45, 60}}

CallReadings ==
  UNION {{s \in ReadingsOf(n) :
            \A i \in 1..n : s[i].sensor \in {"ph", "turbidity", "lastUpdated"}} :
         n \in 0..MaxCallEntries}

\* ------------------------------------------------------------------- state

VARIABLES
  op,            \* the function called ("none" before the call)
  pc,            \* "call": about to call; "loop": in calculateWaterQuality's
                 \* for loop; "done": the call has returned
  sensorType,    \* argument of getSensorStatus / getSafeRangePercentage
  value,         \* argument of getSensorStatus / getSafeRangePercentage
  sensorData,    \* argument of calculateWaterQuality
  status,        \* what getSensorStatus returned
  percentage,    \* what getSafeRangePercentage returned
  idx,           \* calculateWaterQuality: the number of entries iterated
  statuses,      \* calculateWaterQuality: local statuses
  overallStatus, \* calculateWaterQuality: local overallStatus
  result,        \* what calculateWaterQuality returned
  view,          \* what the dashboard's WaterQualityStatus shows
  calls          \* the number of calls that returned before this one

\* the state of the history page (HistoryPage's useState hooks)
VARIABLES
  filterType,     \* 'all' or a log type
  filterCategory, \* 'all' or a log category
  searchQuery,    \* the text of the search box, a sequence of characters
  currentPage     \* the page of the filtered logs that is shown

args == <<sensorType, value, sensorData>>
locals == <<idx, statuses, overallStatus>>
returns == <<status, percentage, result>>
page == <<filterType, filterCategory, searchQuery, currentPage>>
vars == <<SENSOR_THRESHOLDS, op, pc, sensorType, value, sensorData, status,
          percentage, idx, statuses, overallStatus, result, view, calls, page>>

NoResult == [overall |-> "none", sensors |-> EmptyMap, isPotable |-> FALSE]
NoView == [headline |-> "none", label |-> "none", color |-> "none"]

\* before the call: the caller holds either a (sensorType, value) pair or a
\* readings object
Init ==
  /\ SENSOR_THRESHOLDS = SENSOR_THRESHOLDS_LITERAL
  /\ op = "none"
  /\ pc = "call"
  /\ \/ sensorType \in Keys /\ value \in Values /\ sensorData = << >>
     \/ sensorType = "ph" /\ value = 0 /\ sensorData \in Readings
  /\ status = "none"
  /\ percentage = Num(0)
  /\ idx = 0
  /\ statuses = EmptyMap
  /\ overallStatus = SAFE
  /\ result = NoResult
  /\ view = NoView
  /\ calls = 0
  /\ filterType = "all"
  /\ filterCategory = "all"
  /\ searchQuery = << >>
  /\ currentPage = 1

\* mutant: an assignment where a comparison was meant (threshold.min = value)
\* writes the reading into the shared table
GetSensorStatus_WritesThreshold ==
  /\ pc = "call"
  /\ op' = "getSensorStatus"
  /\ status' = getSensorStatus(sensorType, value)
  /\ pc' = "done"
  /\ SENSOR_THRESHOLDS' =
       IF sensorType \in SensorKinds
       THEN [SENSOR_THRESHOLDS EXCEPT ![sensorType].min = value]
       ELSE SENSOR_THRESHOLDS
  /\ UNCHANGED <<page, args, locals, percentage, result, view, calls>>

\* getSensorStatus(sensorType, value)
GetSensorStatus ==
  /\ pc = "call"
  /\ op' = "getSensorStatus"
  /\ status' = getSensorStatus(sensorType, value)
  /\ pc' = "done"
  /\ UNCHANGED <<page, SENSOR_THRESHOLDS, args, locals, percentage, result, view, calls>>

\* getSafeRangePercentage(sensorType, value)
GetSafeRangePercentage ==
  /\ pc = "call"
  /\ op' = "getSafeRangePercentage"
  /\ percentage' = getSafeRangePercentage(sensorType, value)
  /\ pc' = "done"
  /\ UNCHANGED <<page, SENSOR_THRESHOLDS, args, locals, status, result, view, calls>>

\* the sensors page renders <SensorDetailCard type value> for each of the
\* four kinds: it classifies the reading and computes its percentage
SensorDetailCard ==
  /\ pc = "call"
  /\ sensorType \in SensorKinds
  /\ op' = "SensorDetailCard"
  /\ status' = getSensorStatus(sensorType, value)
  /\ percentage' = getSafeRangePercentage(sensorType, value)
  /\ pc' = "done"
  /\ UNCHANGED <<page, SENSOR_THRESHOLDS, args, locals, result, view, calls>>

\* mutant: statuses and overallStatus are module-level accumulators that the
\* call does not reset
CalculateWaterQuality_KeepsLocals ==
  /\ pc = "call"
  /\ op' = "calculateWaterQuality"
  /\ idx' = 0
  /\ pc' = "loop"
  /\ UNCHANGED <<page, SENSOR_THRESHOLDS, args, statuses, overallStatus, returns,
                 view, calls>>

\* calculateWaterQuality(sensorData): entry, up to the for loop
CalculateWaterQuality ==
  /\ pc = "call"
  /\ op' = "calculateWaterQuality"
  /\ statuses' = EmptyMap
  /\ overallStatus' = SAFE
  /\ idx' = 0
  /\ pc' = "loop"
  /\ UNCHANGED <<page, SENSOR_THRESHOLDS, args, returns, view, calls>>

\* mutant: overallStatus is declared inside the loop body, so every iteration
\* starts again from Safe
ForEntry_ResetsOverall ==
  /\ pc = "loop"
  /\ idx < Len(sensorData)
  /\ LET acc == LoopBody([statuses |-> statuses, overallStatus |-> SAFE],
                         sensorData[idx + 1])
     IN  /\ statuses' = acc.statuses
         /\ overallStatus' = acc.overallStatus
  /\ idx' = idx + 1
  /\ UNCHANGED <<page, SENSOR_THRESHOLDS, op, pc, args, returns, view, calls>>

\* one iteration of the for loop over Object.entries(sensorData)
ForEntry ==
  /\ pc = "loop"
  /\ idx < Len(sensorData)
  /\ LET acc == LoopBody([statuses |-> statuses, overallStatus |-> overallStatus],
                         sensorData[idx + 1])
     IN  /\ statuses' = acc.statuses
         /\ overallStatus' = acc.overallStatus
  /\ idx' = idx + 1
  /\ UNCHANGED <<page, SENSOR_THRESHOLDS, op, pc, args, returns, view, calls>>

\* the loop is over: return { overall, sensors, isPotable }
ReturnWaterQuality ==
  /\ pc = "loop"
  /\ idx = Len(sensorData)
  /\ result' = WaterQualityResult(overallStatus, statuses)
  /\ pc' = "done"
  /\ UNCHANGED <<page, SENSOR_THRESHOLDS, op, args, locals, status, percentage, view, calls>>

\* DashboardPage renders <WaterQualityStatus status={waterQuality.overall}>
RenderWaterQualityStatus ==
  /\ pc = "done"
  /\ op = "calculateWaterQuality"
  /\ view' = WaterQualityStatus(result.overall)
  /\ pc' = "rendered"
  /\ UNCHANGED <<page, SENSOR_THRESHOLDS, op, args, locals, returns, calls>>

Next ==
  \/ GetSensorStatus
  \/ GetSafeRangePercentage
  \/ SensorDetailCard
  \/ CalculateWaterQuality
  \/ ForEntry
  \/ ReturnWaterQuality
  \/ RenderWaterQualityStatus

Spec == Init /\ [][Next]_vars

\* ------------------------------------------------------------ repeated calls

\* the callers call again and again: after a call has returned (and the
\* dashboard has rendered) the next call is made with new arguments.  The
\* values returned belong to the caller, who drops them; the frame of the
\* call that returned is dead storage, which the next call may find as it is.
InitCalls ==
  /\ Init
  /\ <<sensorType, value>> \in CallPairs
  /\ sensorData \in CallReadings

NewCall ==
  /\ pc \in {"done", "rendered"}
  /\ calls < MaxCalls
  /\ calls' = calls + 1
  /\ pc' = "call"
  /\ op' = "none"
  /\ \/ \E p \in CallPairs :
          sensorType' = p[1] /\ value' = p[2] /\ sensorData' = << >>
     \/ sensorType' = "ph" /\ value' = 0 /\ sensorData' \in CallReadings
  /\ status' = "none"
  /\ percentage' = Num(0)
  /\ result' = NoResult
  /\ view' = NoView
  /\ UNCHANGED <<page, SENSOR_THRESHOLDS, locals>>

NextCalls == Next \/ NewCall

SpecCalls == InitCalls /\ [][NextCalls]_vars

\* ------------------------------------------------------------ history page

\* the logs the loader hands to the page: systemLogs of the mock data (id,
\* type, category and message; a message is the sequence of its characters)
logs ==
  <<
     \* 'All sensors reporting normal readings'
     [ id |-> 1, type |-> "info", category |-> "sensor",
       message |-> << "A", "l", "l", " ", "s", "e", "n", "s", "o", "r", "s", " ",
                      "r", "e", "p", "o", "r", "t", "i", "n", "g", " ", "n", "o",
                      "r", "m", "a", "l", " ", "r", "e", "a", "d", "i", "n", "g",
                      "s" >> ],
     \* 'UV sterilization cycle completed'
     [ id |-> 2, type |-> "success", category |-> "system",
       message |-> << "U", "V", " ", "s", "t", "e", "r", "i", "l", "i", "z", "a",
                      "t", "i", "o", "n", " ", "c", "y", "c", "l", "e", " ", "c",
                      "o", "m", "p", "l", "e", "t", "e", "d" >> ],
     \* 'Turbidity approaching threshold'
     [ id |-> 3, type |-> "warning", category |-> "sensor",
       message |-> << "T", "u", "r", "b", "i", "d", "i", "t", "y", " ", "a", "p",
                      "p", "r", "o", "a", "c", "h", "i", "n", "g", " ", "t", "h",
                      "r", "e", "s", "h", "o", "l", "d" >> ],
     \* 'Automatic filter backwash initiated'
     [ id |-> 4, type |-> "info", category |-> "maintenance",
       message |-> << "A", "u", "t", "o", "m", "a", "t", "i", "c", " ", "f", "i",
                      "l", "t", "e", "r", " ", "b", "a", "c", "k", "w", "a", "s",
                      "h", " ", "i", "n", "i", "t", "i", "a", "t", "e", "d" >> ],
     \* 'Water quality assessment: SAFE'
     [ id |-> 5, type |-> "success", category |-> "system",
       message |-> << "W", "a", "t", "e", "r", " ", "q", "u", "a", "l", "i", "t",
                      "y", " ", "a", "s", "s", "e", "s", "s", "m", "e", "n", "t",
                      ":", " ", "S", "A", "F", "E" >> ],
     \* 'Tank level increased to 75%'
     [ id |-> 6, type |-> "info", category |-> "tank",
       message |-> << "T", "a", "n", "k", " ", "l", "e", "v", "e", "l", " ", "i",
                      "n", "c", "r", "e", "a", "s", "e", "d", " ", "t", "o", " ",
                      "7", "5", "%" >> ],
     \* 'Power fluctuation detected'
     [ id |-> 7, type |-> "warning", category |-> "system",
       message |-> << "P", "o", "w", "e", "r", " ", "f", "l", "u", "c", "t", "u",
                      "a", "t", "i", "o", "n", " ", "d", "e", "t", "e", "c", "t",
                      "e", "d" >> ],
     \* 'TDS sensor calibration needed'
     [ id |-> 8, type |-> "error", category |-> "sensor",
       message |-> << "T", "D", "S", " ", "s", "e", "n", "s", "o", "r", " ", "c",
                      "a", "l", "i", "b", "r", "a", "t", "i", "o", "n", " ", "n",
                      "e", "e", "d", "e", "d" >> ],
     \* 'Weekly system health check passed'
     [ id |-> 9, type |-> "success", category |-> "maintenance",
       message |-> << "W", "e", "e", "k", "l", "y", " ", "s", "y", "s", "t", "e",
                      "m", " ", "h", "e", "a", "l", "t", "h", " ", "c", "h", "e",
                      "c", "k", " ", "p", "a", "s", "s", "e", "d" >> ],
     \* 'Daily report generated'
     [ id |-> 10, type |-> "info", category |-> "system",
       message |-> << "D", "a", "i", "l", "y", " ", "r", "e", "p", "o", "r", "t",
                      " ", "g", "e", "n", "e", "r", "a", "t", "e", "d" >> ]
  >>

logsPerPage == 5

\* String.prototype.toLowerCase on the letters A-Z
UpperToLower ==
  [ A |-> "a", B |-> "b", C |-> "c", D |-> "d", E |-> "e", F |-> "f", G |-> "g",
    H |-> "h", I |-> "i", J |-> "j", K |-> "k", L |-> "l", M |-> "m", N |-> "n",
    O |-> "o", P |-> "p", Q |-> "q", R |-> "r", S |-> "s", T |-> "t", U |-> "u",
    V |-> "v", W |-> "w", X |-> "x", Y |-> "y", Z |-> "z" ]

toLowerCase(s) ==
  [i \in 1..Len(s) |-> IF s[i] \in DOMAIN UpperToLower THEN UpperToLower[s[i]] ELSE s[i]]

\* String.prototype.includes: q occurs in s as a substring
includes(s, q) ==
  \E i \in 0..(Len(s) - Len(q)) : SubSeq(s, i + 1, i + Len(q)) = q

\* Array.prototype.slice(start, end) for 0 <= start <= end
slice(s, start, end) ==
  SubSeq(s, start + 1, IF end < Len(s) THEN end ELSE Len(s))

\* the predicate of logs.filter; an empty searchQuery is falsy
LogMatches(log) ==
  /\ ~(filterType # "all" /\ log.type # filterType)
  /\ ~(filterCategory # "all" /\ log.category # filterCategory)
  /\ ~(searchQuery # << >> /\
        ~includes(toLowerCase(log.message), toLowerCase(searchQuery)))

filteredLogs == SelectSeq(logs, LogMatches)

\* Math.ceil(filteredLogs.length / logsPerPage)
totalPages == (Len(filteredLogs) + logsPerPage - 1) \div logsPerPage

paginatedLogs ==
  slice(filteredLogs, (currentPage - 1) * logsPerPage, currentPage * logsPerPage)

\* the unique categories of the logs, the items of the category filter
categories == {logs[i].category : i \in 1..Len(logs)}

\* the items of the type filter
LogTypes == {"info", "success", "warning", "error"}

\* the texts typed into the search box: none, 'e' (in every message),
\* 'sensor', 'TDS' and a text that no message holds
SearchQueries ==
  { << >>,
    << "e" >>,
    << "s", "e", "n", "s", "o", "r" >>,
    << "T", "D", "S" >>,
    << "x", "y", "z" >> }

\* the list shows the "No logs found matching your filters." card
ShowsNoLogsFound == Len(paginatedLogs) = 0

\* the pagination row is rendered
ShowsPagination == totalPages > 1

water == <<SENSOR_THRESHOLDS, op, pc, args, locals, returns, view, calls>>

\* the search box: onChange={(e) => setSearchQuery(e.target.value)}
SetSearchQuery ==
  /\ searchQuery' \in SearchQueries
  /\ UNCHANGED <<water, filterType, filterCategory, currentPage>>

\* the type filter: onValueChange={setFilterType}
SetFilterType ==
  /\ filterType' \in {"all"} \cup LogTypes
  /\ UNCHANGED <<water, filterCategory, searchQuery, currentPage>>

\* the category filter: onValueChange={setFilterCategory}
SetFilterCategory ==
  /\ filterCategory' \in {"all"} \cup categories
  /\ UNCHANGED <<water, filterType, searchQuery, currentPage>>

\* the previous-page button, disabled on page 1
PreviousPage ==
  /\ ShowsPagination
  /\ currentPage # 1
  /\ currentPage' = IF currentPage - 1 > 1 THEN currentPage - 1 ELSE 1
  /\ UNCHANGED <<water, filterType, filterCategory, searchQuery>>

\* the next-page button, disabled on the last page
NextPage ==
  /\ ShowsPagination
  /\ currentPage # totalPages
  /\ currentPage' = IF currentPage + 1 < totalPages THEN currentPage + 1 ELSE totalPages
  /\ UNCHANGED <<water, filterType, filterCategory, searchQuery>>

\* the history page is open: the dashboard's loader has run
InitHistory ==
  /\ Init
  /\ sensorType = "ph"
  /\ value = 0
  /\ sensorData = currentSensorData

NextHistory ==
  \/ SetSearchQuery
  \/ SetFilterType
  \/ SetFilterCategory
  \/ PreviousPage
  \/ NextPage

SpecHistory == InitHistory /\ [][NextHistory]_vars

TypeOK ==
  /\ op \in {"none", "getSensorStatus", "getSafeRangePercentage", "SensorDetailCard",
            "calculateWaterQuality"}
  /\ pc \in {"call", "loop", "done", "rendered"}
  /\ sensorType \in Keys
  /\ value \in Values
  /\ status \in WATER_STATUS \cup {"none"}
  /\ percentage.isNaN \in BOOLEAN
  /\ idx \in Nat
  /\ pc = "loop" => idx <= Len(sensorData)
  /\ DOMAIN statuses \subseteq Keys
  /\ overallStatus \in WATER_STATUS
  /\ calls \in 0..MaxCalls
  /\ filterType \in {"all"} \cup LogTypes
  /\ filterCategory \in {"all"} \cup categories
  /\ searchQuery \in SearchQueries
  /\ currentPage \in 1..Len(logs)

\* ------------------------------------------------------------------ claims

\* the call of f has returned
Returned(f) == op = f /\ pc = "done"

\* C1: for the two-sided kinds ph (min 6.5, max 8.5, slack 0.5) and
\* temperature (min 15, max 25, slack 5), getSensorStatus returns Safe exactly
\* when min <= value <= max, Warning exactly when min - slack <= value <=
\* max + slack and the value is not Safe, and Unsafe for every other value.
C1_Band ==
  [ ph          |-> [min |-> 65,  max |-> 85,  slack |-> 5],
    temperature |-> [min |-> 150, max |-> 250, slack |-> 50] ]

C1_TwoSidedBands ==
  (Returned("getSensorStatus") /\ sensorType \in {"ph", "temperature"}) =>
    LET b == C1_Band[sensorType]
        inSafe == b.min <= value /\ value <= b.max
        inBand == b.min - b.slack <= value /\ value <= b.max + b.slack
    IN  /\ status = SAFE <=> inSafe
        /\ status = WARNING <=> (inBand /\ ~inSafe)
        /\ status = UNSAFE <=> ~inBand
        /\ (sensorType = "ph" /\ value = 65) => status = SAFE
        /\ (sensorType = "ph" /\ value = 60) => status = WARNING
        /\ (sensorType = "ph" /\ value = 59) => status = UNSAFE
        /\ (sensorType = "temperature" /\ value = 250) => status = SAFE
        /\ (sensorType = "temperature" /\ value = 290) => status = WARNING
        /\ (sensorType = "temperature" /\ value = 310) => status = UNSAFE

\* ph 6.0, the lower edge of the widened band, has been classified Warning
C1_Witness ==
  Returned("getSensorStatus") /\ sensorType = "ph" /\ value = 60 /\ status = WARNING

\* C2: for the upper-bounded kinds turbidity (max 5) and tds (max 500),
\* getSensorStatus returns Safe exactly when value <= 0.8 * max, Warning
\* exactly when 0.8 * max < value <= max, and Unsafe exactly when value > max,
\* for every value including zero and negative values.
C2_Max == [turbidity |-> 50, tds |-> 5000]

C2_UpperBoundedBands ==
  (Returned("getSensorStatus") /\ sensorType \in {"turbidity", "tds"}) =>
    LET max == C2_Max[sensorType] IN
    /\ status = SAFE <=> 10 * value <= 8 * max
    /\ status = WARNING <=> (8 * max < 10 * value /\ value <= max)
    /\ status = UNSAFE <=> value > max
    /\ (sensorType = "turbidity" /\ value = 40) => status = SAFE
    /\ (sensorType = "turbidity" /\ value = 45) => status = WARNING
    /\ (sensorType = "turbidity" /\ value = 51) => status = UNSAFE
    /\ (sensorType = "tds" /\ value = 4000) => status = SAFE
    /\ (sensorType = "tds" /\ value = 4500) => status = WARNING
    /\ (sensorType = "tds" /\ value = 6000) => status = UNSAFE

\* a negative tds reading has been classified Safe
C2_Witness ==
  Returned("getSensorStatus") /\ sensorType = "tds" /\ value < 0 /\ status = SAFE

\* C3 as stated: for each of the four sensor kinds, a value exactly equal to
\* the kind's min or to its max in the threshold table is classified Safe.
C3_AtMinOrMaxSafe ==
  (/\ Returned("getSensorStatus")
   /\ sensorType \in SensorKinds
   /\ value \in {SENSOR_THRESHOLDS[sensorType].min, SENSOR_THRESHOLDS[sensorType].max})
  => status = SAFE

\* C3 (amended): a value exactly equal to the kind's min is classified Safe for
\* each of the four sensor kinds; a value exactly equal to the kind's max is
\* classified Safe for ph and temperature and Warning for turbidity and tds.
C3_AtMinSafeAtMaxByFamily ==
  (Returned("getSensorStatus") /\ sensorType \in SensorKinds) =>
    /\ value = SENSOR_THRESHOLDS[sensorType].min => status = SAFE
    /\ value = SENSOR_THRESHOLDS[sensorType].max =>
         status = IF sensorType \in {"ph", "temperature"} THEN SAFE ELSE WARNING

\* turbidity exactly at its max, 5.0, has been classified
C3_Witness ==
  /\ Returned("getSensorStatus")
  /\ sensorType = "turbidity"
  /\ value = 50
  /\ status = WARNING

\* the most severe status of a set of statuses, Safe < Warning < Unsafe
\* (Safe for the empty set)
MostSevere(S) ==
  IF UNSAFE \in S THEN UNSAFE ELSE IF WARNING \in S THEN WARNING ELSE SAFE

\* the keys of the readings object
KeysOf(data) == {data[i].sensor : i \in 1..Len(data)}

\* the value the readings object holds for key k
ValueOf(data, k) == data[CHOOSE i \in 1..Len(data) : data[i].sensor = k].value

IsSensorKind(entry) == entry.sensor \in SensorKinds

\* C4: calculateWaterQuality returns as overall status the most severe status
\* among the classified sensors: Unsafe if any classified sensor is Unsafe
\* however many others are Safe, otherwise Warning if any is Warning,
\* otherwise Safe.
C4_OverallIsMostSevere ==
  Returned("calculateWaterQuality") =>
    /\ result.overall =
         MostSevere({result.sensors[k] : k \in DOMAIN result.sensors})
    /\ result.overall =
         MostSevere({getSensorStatus(k, ValueOf(sensorData, k)) :
                       k \in KeysOf(sensorData) \cap SensorKinds})

\* an Unsafe sensor was classified before a Warning one and beside a Safe one,
\* and the overall status is Unsafe
C4_Witness ==
  /\ Returned("calculateWaterQuality")
  /\ Len(sensorData) = 3
  /\ sensorData[1].sensor \in SensorKinds
  /\ sensorData[2].sensor \in SensorKinds
  /\ sensorData[3].sensor \in SensorKinds
  /\ result.sensors[sensorData[1].sensor] = UNSAFE
  /\ result.sensors[sensorData[2].sensor] = WARNING
  /\ result.sensors[sensorData[3].sensor] = SAFE
  /\ result.overall = UNSAFE

\* C5: in every result of calculateWaterQuality, isPotable is true if and
\* only if overall is Safe, which holds if and only if every entry of the
\* per-sensor status map is Safe.
C5_PotableIffAllSafe ==
  Returned("calculateWaterQuality") =>
    /\ result.isPotable <=> result.overall = SAFE
    /\ result.overall = SAFE <=>
         \A k \in DOMAIN result.sensors : result.sensors[k] = SAFE

\* a result whose only flaw is one Warning sensor is not potable
C5_Witness ==
  /\ Returned("calculateWaterQuality")
  /\ ~result.isPotable
  /\ result.overall = WARNING
  /\ \E k \in DOMAIN result.sensors : result.sensors[k] = SAFE

\* C6: for every kind that is not one of ph, turbidity, tds, temperature (any
\* other name, 'chlorine', and also 'constructor' or 'toString', which are not
\* own entries of the threshold table), getSensorStatus returns Warning for
\* every value.
C6_UnknownKindIsWarning ==
  (Returned("getSensorStatus") /\ sensorType \notin SensorKinds) =>
    status = WARNING

\* C7: calculateWaterQuality skips unknown kinds entirely: the entries whose
\* kind is not one of the four sensor kinds change neither the overall status,
\* nor isPotable, nor the per-sensor map (the result is that of the readings
\* without them).
C7_UnknownKindsSkipped ==
  Returned("calculateWaterQuality") =>
    result = calculateWaterQuality(SelectSeq(sensorData, IsSensorKind))

\* C8: the per-sensor map returned by calculateWaterQuality has as its keys
\* exactly the keys of the readings that are one of the four sensor kinds,
\* and for each such key k its entry equals getSensorStatus(k, readings[k]).
C8_SensorsMapIsClassification ==
  Returned("calculateWaterQuality") =>
    /\ DOMAIN result.sensors = KeysOf(sensorData) \cap SensorKinds
    /\ \A k \in KeysOf(sensorData) \cap SensorKinds :
         result.sensors[k] = getSensorStatus(k, ValueOf(sensorData, k))

\* C9: when the readings are empty or hold only unknown kinds,
\* calculateWaterQuality returns overall Safe, isPotable true and an empty
\* per-sensor map.
C9_NothingClassified ==
  (Returned("calculateWaterQuality") /\ KeysOf(sensorData) \cap SensorKinds = {}) =>
    /\ result.overall = SAFE
    /\ result.isPotable
    /\ DOMAIN result.sensors = {}

ClampPct(x) == IF x < 0 THEN 0 ELSE IF x > 10000 THEN 10000 ELSE x

Distance(a, b) == IF a < b THEN b - a ELSE a - b

\* C11: for temperature, getSafeRangePercentage uses the two-sided formula
\* clamp(0, 100, 100 - (|value - midpoint| / (range/2)) * 100) with min 15 and
\* max 25: 100 at the midpoint 20, 0 at 15 and at 25, 0 beyond either edge.
C11_TemperatureTwoSided ==
  (Returned("getSafeRangePercentage") /\ sensorType = "temperature") =>
    /\ percentage = Num(ClampPct(10000 - Distance(value, 200) * 200))
    /\ value = 200 => percentage = Num(10000)
    /\ (value <= 150 \/ value >= 250) => percentage = Num(0)

\* C12: for ph, getSafeRangePercentage equals
\* clamp(0, 100, 100 - (|value - 7.5| / 1.0) * 100): 100 at the midpoint 7.5,
\* 0 at the edges 6.5 and 8.5, 0 for every value outside [6.5, 8.5], and the
\* same value at 7.5 - d and 7.5 + d.
C12_PhTwoSided ==
  (Returned("getSafeRangePercentage") /\ sensorType = "ph") =>
    /\ percentage = Num(ClampPct(10000 - Distance(value, 75) * 1000))
    /\ value = 75 => percentage = Num(10000)
    /\ (value <= 65 \/ value >= 85) => percentage = Num(0)
    /\ percentage = getSafeRangePercentage("ph", 150 - value)

\* ph 7.0, half a unit below the midpoint, gave 50
C12_Witness ==
  /\ Returned("getSafeRangePercentage")
  /\ sensorType = "ph"
  /\ value = 70
  /\ percentage = Num(5000)

C14_ShippedReadingsPotable ==
  (Returned("calculateWaterQuality") /\ sensorData = currentSensorData) =>
    /\ result.overall = SAFE
    /\ result.isPotable
    /\ result.sensors = [k \in {"ph", "turbidity", "tds", "temperature"} |-> SAFE]

\* the loader's call has returned
C14_Witness ==
  /\ Returned("calculateWaterQuality")
  /\ sensorData = currentSensorData
  /\ result.isPotable

\* C15: results are history-independent: whatever calls were made before, a
\* call returns the classification, the aggregate result and the percentage
\* that are the function of its own arguments (and of the threshold table),
\* so two runs that differ only in their earlier calls agree on the call.
C15_HistoryIndependent ==
  /\ Returned("getSensorStatus") => status = getSensorStatus(sensorType, value)
  /\ Returned("getSafeRangePercentage") =>
       percentage = getSafeRangePercentage(sensorType, value)
  /\ Returned("calculateWaterQuality") => result = calculateWaterQuality(sensorData)
  /\ SENSOR_THRESHOLDS = SENSOR_THRESHOLDS_LITERAL

\* calculateWaterQuality has returned an all-Safe result with a classified
\* sensor after at least two earlier calls
C15_Witness ==
  /\ Returned("calculateWaterQuality")
  /\ calls >= 2
  /\ DOMAIN result.sensors # {}
  /\ result.overall = SAFE

\* C16: no operation has side effects: after any sequence of calls the
\* threshold table still holds its four initial entries (ph 6.5-8.5,
\* turbidity max 5, tds max 500, temperature 15-25), no step of a call changes
\* the readings (or the other arguments) it was passed, and no reading is
\* retained between calls: inside calculateWaterQuality the locals hold what
\* the entries iterated so far of the current readings give, nothing else.
C16_Table ==
  /\ DOMAIN SENSOR_THRESHOLDS = {"ph", "turbidity", "tds", "temperature"}
  /\ SENSOR_THRESHOLDS["ph"] = [min |-> 65, max |-> 85]
  /\ SENSOR_THRESHOLDS["turbidity"].max = 50
  /\ SENSOR_THRESHOLDS["tds"].max = 5000
  /\ SENSOR_THRESHOLDS["temperature"] = [min |-> 150, max |-> 250]

C16_NoSideEffects ==
  /\ [](C16_Table)
  /\ [][NewCall \/ UNCHANGED args]_vars
  /\ [](pc = "loop" =>
          [statuses |-> statuses, overallStatus |-> overallStatus]
            = LoopOver(sensorData, idx))

\* a call over two readings has returned after two earlier calls, with the
\* table and the readings as they were
C16_Witness ==
  /\ Returned("calculateWaterQuality")
  /\ calls >= 2
  /\ Len(sensorData) = 2
  /\ C16_Table

\* C17: getSensorStatus, calculateWaterQuality and getSafeRangePercentage
\* never propagate an error: for every kind name (known or unknown), every
\* value (negative values and extreme outliers included) and every readings
\* object, a call in progress can always go on until it returns, what it
\* returns is a status (a number for the percentage), and a value beyond the
\* widened band of ph or temperature, or above the max of turbidity or tds,
\* is classified Unsafe rather than rejected.
C17_FarOutside(k, v) ==
  \/ k = "ph" /\ (v < 60 \/ v > 90)
  \/ k = "temperature" /\ (v < 100 \/ v > 300)
  \/ k = "turbidity" /\ v > 50
  \/ k = "tds" /\ v > 5000

C17_NoErrorPropagates ==
  /\ pc \in {"call", "loop"} => ENABLED Next
  /\ Returned("getSensorStatus") =>
       /\ status \in WATER_STATUS
       /\ C17_FarOutside(sensorType, value) => status = UNSAFE
  /\ Returned("getSafeRangePercentage") =>
       percentage \in [isNaN : BOOLEAN, num : Int]
  /\ Returned("calculateWaterQuality") =>
       /\ result.overall \in WATER_STATUS
       /\ result.isPotable \in BOOLEAN
       /\ \A k \in DOMAIN result.sensors : result.sensors[k] \in WATER_STATUS

\* an extreme negative ph reading has been classified Unsafe
C17_Witness ==
  /\ Returned("getSensorStatus")
  /\ sensorType = "ph"
  /\ value = 0 - MaxNeg
  /\ status = UNSAFE

\* C18: for ph and temperature the widened band is symmetric about the
\* midpoint of the safe range (7.5 and 20): the value mirrored at the midpoint
\* is classified as the value is.
C18_Midpoint == [ph |-> 75, temperature |-> 200]

C18_SymmetricBands ==
  (Returned("getSensorStatus") /\ sensorType \in {"ph", "temperature"}) =>
    status = getSensorStatus(sensorType, 2 * C18_Midpoint[sensorType] - value)

\* ph 9.0, the mirror image of 6.0, has been classified Warning
C18_Witness ==
  Returned("getSensorStatus") /\ sensorType = "ph" /\ value = 90 /\ status = WARNING

\* C19: the presentation of an overall status is fixed by the status alone:
\* Safe shows the headline 'Water is Potable' and the label 'Safe' (green),
\* Warning 'Caution Advised' and 'Warning' (amber), Unsafe 'Not Safe to Drink'
\* and 'Unsafe' (red); hence the headline is 'Water is Potable' exactly when
\* calculateWaterQuality's isPotable is true.
C19_Presentation ==
  pc = "rendered" =>
    /\ result.overall = SAFE =>
         view = [headline |-> "Water is Potable", label |-> "Safe",
                 color |-> "text-green-600 dark:text-green-400"]
    /\ result.overall = WARNING =>
         view = [headline |-> "Caution Advised", label |-> "Warning",
                 color |-> "text-amber-600 dark:text-amber-400"]
    /\ result.overall = UNSAFE =>
         view = [headline |-> "Not Safe to Drink", label |-> "Unsafe",
                 color |-> "text-red-600 dark:text-red-400"]
    /\ view.headline = "Water is Potable" <=> result.isPotable

\* a Warning result has been rendered as 'Caution Advised'
C19_Witness ==
  /\ pc = "rendered"
  /\ result.overall = WARNING
  /\ ~result.isPotable
  /\ view.headline = "Caution Advised"

\* C20: as documented on getSafeRangePercentage, the percentage can exceed 100
\* if the reading is unsafe: there is a sensor kind and an Unsafe value for
\* which the returned percentage is greater than 100.
C20_CanExceed100 ==
  \E k \in SensorKinds, v \in Values :
    /\ getSensorStatus(k, v) = UNSAFE
    /\ getSafeRangePercentage(k, v).num > 10000

\* the enumeration orders of a readings object: the sequences that hold the
\* same entries, each once
Orders(data) ==
  LET n == Len(data) IN
  {[i \in 1..n |-> data[f[i]]] :
     f \in {g \in [1..n -> 1..n] : \A i, j \in 1..n : i # j => g[i] # g[j]}}

\* C21: calculateWaterQuality is order-independent: for any readings object,
\* every enumeration order of its entries produces the same overall status,
\* the same per-sensor map and the same isPotable.
C21_OrderIndependent ==
  Returned("calculateWaterQuality") =>
    \A other \in Orders(sensorData) :
      LET r == calculateWaterQuality(other) IN
      /\ r.overall = result.overall
      /\ r.sensors = result.sensors
      /\ r.isPotable = result.isPotable

\* readings that hold an Unsafe sensor before a Warning one have been
\* aggregated; the reverse order is another enumeration of the same object
C21_Witness ==
  /\ Returned("calculateWaterQuality")
  /\ Len(sensorData) >= 2
  /\ sensorData[1].sensor \in SensorKinds
  /\ sensorData[2].sensor \in SensorKinds
  /\ result.sensors[sensorData[1].sensor] = UNSAFE
  /\ result.sensors[sensorData[2].sensor] = WARNING
  /\ result.overall = UNSAFE
  /\ Cardinality(Orders(sensorData)) >= 2

\* the rank of a status in the order Safe < Warning < Unsafe
Severity(s) == IF s = UNSAFE THEN 2 ELSE IF s = WARNING THEN 1 ELSE 0

\* C22: while calculateWaterQuality iterates over the readings, the running
\* overall status never decreases in severity (once Warning it never returns
\* to Safe, once Unsafe it stays Unsafe), and after each processed entry it
\* equals the maximum severity of the sensors classified so far (Safe if
\* none).
C22_ClassifiedSoFar ==
  {getSensorStatus(sensorData[i].sensor, sensorData[i].value) :
     i \in {j \in 1..idx : sensorData[j].sensor \in SensorKinds}}

C22_RunningStatusMonotone ==
  /\ [][pc = "loop" => Severity(overallStatus') >= Severity(overallStatus)]_vars
  /\ [][(pc = "loop" /\ overallStatus = WARNING) => overallStatus' # SAFE]_vars
  /\ [][(pc = "loop" /\ overallStatus = UNSAFE) => overallStatus' = UNSAFE]_vars
  /\ [](pc = "loop" =>
          /\ overallStatus = MostSevere({statuses[k] : k \in DOMAIN statuses})
          /\ overallStatus = MostSevere(C22_ClassifiedSoFar))

\* the loop has processed an Unsafe sensor and then a Safe one, and the
\* running status is still Unsafe
C22_Witness ==
  /\ pc = "loop"
  /\ idx = 2
  /\ sensorData[1].sensor \in SensorKinds
  /\ sensorData[2].sensor \in SensorKinds
  /\ statuses[sensorData[1].sensor] = UNSAFE
  /\ statuses[sensorData[2].sensor] = SAFE
  /\ overallStatus = UNSAFE

\* C23: severity is monotone in the distance from the safe region: for
\* turbidity and tds, v1 <= v2 implies severity(v1) <= severity(v2); for ph and
\* temperature, of two values on the same side of the range midpoint (7.5 and
\* 20) the one farther from the midpoint is never classified as less severe
\* than the nearer one.
C23_SeverityMonotone ==
  /\ (Returned("getSensorStatus") /\ sensorType \in {"turbidity", "tds"}) =>
       \A v2 \in value .. MaxValue :
         Severity(status) <= Severity(getSensorStatus(sensorType, v2))
  /\ (Returned("getSensorStatus") /\ sensorType \in {"ph", "temperature"}) =>
       LET midpoint == C18_Midpoint[sensorType] IN
       \A v2 \in Values :
         (/\ (value >= midpoint /\ v2 >= midpoint) \/ (value <= midpoint /\ v2 <= midpoint)
          /\ Distance(v2, midpoint) >= Distance(value, midpoint))
         => Severity(status) <= Severity(getSensorStatus(sensorType, v2))

\* a temperature of 5.0, below the widened band, has been classified Unsafe,
\* as no value nearer to the midpoint on that side is classified more severely
C23_Witness ==
  /\ Returned("getSensorStatus")
  /\ sensorType = "temperature"
  /\ value = 50
  /\ status = UNSAFE

\* SensorDetailCard has classified the reading and computed its percentage
Displayed == op = "SensorDetailCard" /\ pc = "done"

C25_PhAgree ==
  (Displayed /\ sensorType = "ph") =>
    /\ ~percentage.isNaN
    /\ status \in {WARNING, UNSAFE} => percentage.num = 0
    /\ percentage.num > 0 => status = SAFE

\* ph 6.4, a Warning reading a tenth below the range, is shown at 0 %
C25_Witness ==
  /\ Displayed
  /\ sensorType = "ph"
  /\ value = 64
  /\ status = WARNING
  /\ percentage = Num(0)

\* C26: every status that getSensorStatus can return for any kind (known or
\* unknown) and any value, and every overall status that
\* calculateWaterQuality can return, is one of the three keys of
\* STATUS_CONFIG, so the STATUS_CONFIG[status] lookup done by SensorCard,
\* SensorDetailCard and WaterQualityStatus is never undefined.
C26_StatusHasConfig ==
  /\ DOMAIN STATUS_CONFIG = {"safe", "warning", "unsafe"}
  /\ (Returned("getSensorStatus") \/ Displayed) => status \in DOMAIN STATUS_CONFIG
  /\ Returned("calculateWaterQuality") =>
       /\ result.overall \in DOMAIN STATUS_CONFIG
       /\ \A k \in DOMAIN result.sensors : result.sensors[k] \in DOMAIN STATUS_CONFIG
  /\ pc = "rendered" =>
       /\ result.overall \in DOMAIN STATUS_CONFIG
       /\ view.label = STATUS_CONFIG[result.overall].label

\* a kind the table does not know has been given a status that has a
\* STATUS_CONFIG entry
C26_Witness ==
  /\ Returned("getSensorStatus")
  /\ sensorType = "chlorine"
  /\ status = WARNING
  /\ STATUS_CONFIG[status].label = "Warning"

\* C27: for every kind that is not one of ph, turbidity, tds, temperature,
\* getSafeRangePercentage returns the fixed neutral value 50 for every value,
\* without raising an error.
C27_UnknownKindIsFifty ==
  (Returned("getSafeRangePercentage") /\ sensorType \notin SensorKinds) =>
    percentage = Num(5000)

\* C28: on the history page, after any sequence of search-text, type-filter
\* and category-filter changes and previous/next page clicks, the current
\* page stays within 1..totalPages whenever at least one log matches the
\* filters, so a non-empty filtered list is never rendered as the empty 'No
\* logs found matching your filters' state.
C28_PageInRange ==
  Len(filteredLogs) > 0 =>
    /\ 1 <= currentPage
    /\ currentPage <= totalPages
    /\ ~ShowsNoLogsFound

====
